---- MODULE Spec2Model ----
(***************************************************************************)
(* Credit approval backend (app/views.py): customer registration, credit   *)
(* scoring, eligibility decision and loan issuance over a relational store.*)
(*                                                                         *)
(* Money is counted in hundredths of the currency unit (the granularity of *)
(* round(x, 2)); interest rates are whole percents; a date is <<y, m, d>>. *)
(* Python's float arithmetic is modelled by exact rational arithmetic and  *)
(* round() by round-half-to-even on the exact value.                       *)
(*                                                                         *)
(* A handler is an operator from the store and the request to its response *)
(* and the table it writes (<handler>_result / _response), and an action   *)
(* that applies it to the store.                                           *)
(***************************************************************************)
EXTENDS Integers, FiniteSets, Sequences, TLC

VARIABLES
    customers,  \* Customer table: customer_id -> [customer_id, monthly_salary, approved_limit]
    loans,      \* Loan table: loan_id -> the loan's fields
    today,      \* date.today()
    probe,      \* input and outcome of the tier policy (SpecTiers only)
    inflight    \* create_loan requests being served, one per worker (SpecConcurrent only)

vars == <<customers, loans, today, probe, inflight>>

(***************************************************************************)
(* Bounds and input sets                                                   *)
(***************************************************************************)
MaxCustomers == 2
MaxLoans == 3

\* hundredths per currency unit: round(monthly_installment, 2)
Cents == 100

\* request inputs <<loan_amount, interest_rate, tenure>>; the last two are
\* requests the schemas reject
Requests == {<<1, 0, 3>>, <<500, 0, 1>>, <<500, 20, 1>>, <<500, 20, 3>>,
             <<0, 20, 1>>, <<500, 20, 0>>}
Ages == {0, 30}
Incomes == {0, 1000 * Cents, 75000 * Cents}
CustomerIds == 1..(MaxCustomers + 1)

\* the days on which requests are made
Calendar == {<<2024, 1, 31>>, <<2024, 3, 1>>, <<2025, 1, 1>>}
FirstDay == <<2024, 1, 31>>

(***************************************************************************)
(* Arithmetic helpers                                                      *)
(***************************************************************************)
Min(a, b) == IF a <= b THEN a ELSE b
Max(a, b) == IF a >= b THEN a ELSE b

RECURSIVE GCD(_, _)
GCD(a, b) == IF b = 0 THEN a ELSE GCD(b, a % b)

RECURSIVE Pow(_, _)
Pow(b, n) == IF n = 0 THEN 1 ELSE b * Pow(b, n - 1)

\* Python round(): the nearest integer to n/d (d > 0), ties to the even one
RoundHalfEven(n, d) ==
    LET q == n \div d
        r == n % d
    IN  IF 2 * r < d THEN q
        ELSE IF 2 * r > d THEN q + 1
        ELSE IF q % 2 = 0 THEN q ELSE q + 1

\* exact rationals <<n, d>>, d > 0, in lowest terms
Frac(n, d) == LET g == GCD(n, d) IN IF g = 0 THEN <<0, 1>> ELSE <<n \div g, d \div g>>
FracAdd(x, y) == Frac(x[1] * y[2] + y[1] * x[2], x[2] * y[2])
FracMin(x, y) == IF x[1] * y[2] <= y[1] * x[2] THEN x ELSE y

RECURSIVE Sum(_, _)
Sum(f, S) == IF S = {} THEN 0
             ELSE LET x == CHOOSE x \in S : TRUE IN f[x] + Sum(f, S \ {x})

(***************************************************************************)
(* Dates                                                                   *)
(***************************************************************************)
IsLeap(y) == (y % 4 = 0 /\ y % 100 # 0) \/ y % 400 = 0

DaysInMonth(y, m) ==
    IF m = 2 THEN (IF IsLeap(y) THEN 29 ELSE 28)
    ELSE IF m \in {4, 6, 9, 11} THEN 30 ELSE 31

\* a <= b
DateLE(a, b) ==
    \/ a[1] < b[1]
    \/ a[1] = b[1] /\ a[2] < b[2]
    \/ a[1] = b[1] /\ a[2] = b[2] /\ a[3] <= b[3]


\* AddMonths that keeps the day of the month whatever the month's length
AddMonths_noclamp(d, n) ==
    LET k == (d[2] - 1) + n
    IN  <<d[1] + (k \div 12), (k % 12) + 1, d[3]>>

\* d + relativedelta(months=n): the same day n calendar months later, or the
\* last day of that month when it is shorter
AddMonths(d, n) ==
    LET k == (d[2] - 1) + n
        y == d[1] + (k \div 12)
        m == (k % 12) + 1
    IN  <<y, m, Min(d[3], DaysInMonth(y, m))>>

(***************************************************************************)
(* Store queries                                                           *)
(***************************************************************************)
\* the query without its customer filter
LoansOf_all(ls, cid) == DOMAIN ls

\* Loan.objects.filter(customer=customer)
LoansOf(ls, cid) == {l \in DOMAIN ls : ls[l].customer = cid}

\* .filter(end_date__gte=date.today())
ActiveLoans(ls, cid, day) == {l \in LoansOf(ls, cid) : DateLE(day, ls[l].end_date)}

\* aggregate(total=Sum(<field>)) or 0
SumAmount(ls, S) == Sum([l \in S |-> ls[l].loan_amount], S)
SumTenure(ls, S) == Sum([l \in S |-> ls[l].tenure], S)
SumEmisPaid(ls, S) == Sum([l \in S |-> ls[l].emis_paid_on_time], S)
SumRepayment(ls, S) == Sum([l \in S |-> ls[l].monthly_repayment], S)

(***************************************************************************)
(* Credit scoring engine: calculate_credit_score                           *)
(***************************************************************************)

\* the baseline left out
base_score_none == 25 - 25

base_score == 25


\* HardRejection with the comparison turned round, and with >= for >
HardRejection_lt(current_loan_sum, approved_limit) == current_loan_sum < approved_limit
HardRejection_ge(current_loan_sum, approved_limit) == current_loan_sum >= approved_limit

\* if current_loan_sum > customer.approved_limit: return 0
HardRejection(current_loan_sum, approved_limit) == current_loan_sum > approved_limit

\* (paid_on_time_emis / total_emis) * 30 if total_emis > 0 else 0
paid_on_time_weight(customer, ls) ==
    LET all == LoansOf(ls, customer.customer_id)
        paid_on_time_emis == SumEmisPaid(ls, all)
        total_emis == SumTenure(ls, all)
    IN  IF total_emis > 0 THEN Frac(paid_on_time_emis * 30, total_emis) ELSE <<0, 1>>

\* min(num_loans * 5, 20)
num_loans_weight(customer, ls) ==
    Min(Cardinality(LoansOf(ls, customer.customer_id)) * 5, 20)

\* min(loans.filter(start_date__year=current_year).count() * 5, 20)
loan_activity_weight(customer, ls, day) ==
    LET current_year == day[1]
    IN  Min(Cardinality({l \in LoansOf(ls, customer.customer_id) :
                            ls[l].start_date[1] = current_year}) * 5, 20)

\* min((total_loan_amount / approved_limit) * 15, 15) under its guard, else 0
loan_volume_weight(customer, ls) ==
    LET total_loan_amount == SumAmount(ls, LoansOf(ls, customer.customer_id))
    IN  IF customer.approved_limit > 0 /\ total_loan_amount <= customer.approved_limit
        THEN FracMin(Frac(total_loan_amount * 15, customer.approved_limit), <<15, 1>>)
        ELSE <<0, 1>>

calculate_credit_score(customer, ls, day) ==
    LET current_loan_sum == SumAmount(ls, ActiveLoans(ls, customer.customer_id, day))
        credit_score ==
            FracAdd(FracAdd(<<base_score
                               + num_loans_weight(customer, ls)
                               + loan_activity_weight(customer, ls, day), 1>>,
                            paid_on_time_weight(customer, ls)),
                    loan_volume_weight(customer, ls))
    IN  IF HardRejection(current_loan_sum, customer.approved_limit)
        THEN 0
        ELSE RoundHalfEven(credit_score[1], credit_score[2])

(***************************************************************************)
(* Amortization calculator: calculate_monthly_installment                  *)
(***************************************************************************)
\* float("inf"): a fraction with denominator 0, and its rounded value
Inf == <<1, 0>>
InfCents == 2147483647

\* The installment as an exact fraction of hundredths. With the monthly
\* rate a/b in lowest terms, numerator / denominator of the code is
\* P*(a/b)*((a+b)/b)^n / (((a+b)/b)^n - 1) = P*a*(a+b)^n / (b*((a+b)^n - b^n)).
calculate_monthly_installment(loan_amount, interest_rate, tenure) ==
    IF tenure = 0 THEN Inf
    ELSE
      LET monthly_interest_rate == Frac(interest_rate, 100 * 12)
          a == monthly_interest_rate[1]
          b == monthly_interest_rate[2]
          denominator == Pow(a + b, tenure) - Pow(b, tenure)
      IN  IF a = 0 THEN Frac(loan_amount, tenure)
          ELSE IF denominator = 0 THEN Inf
          ELSE Frac(loan_amount * a * Pow(a + b, tenure), b * denominator)

\* round(monthly_installment, 2), in hundredths
Round2(x) == IF x[2] = 0 THEN InfCents ELSE RoundHalfEven(x[1], x[2])

(***************************************************************************)
(* Eligibility decision engine: get_eligibility_status                     *)
(***************************************************************************)

\* DebtBurdenExceeded with >= for >
DebtBurdenExceeded_ge(current_emis, monthly_salary) == 2 * current_emis >= monthly_salary

\* if current_emis > customer.monthly_salary * 0.5
DebtBurdenExceeded(current_emis, monthly_salary) == 2 * current_emis > monthly_salary


\* TierPolicy with the first tier opened at 50 (>= for >)
TierPolicy_ge50(credit_score, interest_rate) ==
    IF credit_score >= 50
    THEN [approval |-> TRUE, corrected_interest_rate |-> interest_rate]
    ELSE IF 30 < credit_score /\ credit_score <= 50
    THEN [approval |-> TRUE, corrected_interest_rate |-> Max(interest_rate, 12)]
    ELSE IF 10 < credit_score /\ credit_score <= 30
    THEN [approval |-> TRUE, corrected_interest_rate |-> Max(interest_rate, 16)]
    ELSE [approval |-> FALSE, corrected_interest_rate |-> interest_rate]

\* the tiered policy on the integer credit score
TierPolicy(credit_score, interest_rate) ==
    IF credit_score > 50
    THEN [approval |-> TRUE, corrected_interest_rate |-> interest_rate]
    ELSE IF 30 < credit_score /\ credit_score <= 50
    THEN [approval |-> TRUE, corrected_interest_rate |-> Max(interest_rate, 12)]
    ELSE IF 10 < credit_score /\ credit_score <= 30
    THEN [approval |-> TRUE, corrected_interest_rate |-> Max(interest_rate, 16)]
    ELSE [approval |-> FALSE, corrected_interest_rate |-> interest_rate]

current_emis(customer, ls, day) ==
    SumRepayment(ls, ActiveLoans(ls, customer.customer_id, day))

get_eligibility_status(customer, ls, day, loan_amount, interest_rate, tenure) ==
    IF DebtBurdenExceeded(current_emis(customer, ls, day), customer.monthly_salary)
    THEN [approval |-> FALSE,
          corrected_interest_rate |-> interest_rate,
          monthly_installment |-> 0]
    ELSE
      LET tier == TierPolicy(calculate_credit_score(customer, ls, day), interest_rate)
          monthly_installment ==
              IF tier.approval
              THEN calculate_monthly_installment(loan_amount,
                                                 tier.corrected_interest_rate, tenure)
              ELSE <<0, 1>>
      IN  [approval |-> tier.approval,
           corrected_interest_rate |-> tier.corrected_interest_rate,
           monthly_installment |-> Round2(monthly_installment)]

(***************************************************************************)
(* Request validation (schemas.py) and store access                        *)
(***************************************************************************)
RegisterCustomerSchema(age, monthly_income) == age > 0 /\ monthly_income > 0
CheckEligibilitySchema(loan_amount, interest_rate, tenure) ==
    loan_amount > 0 /\ interest_rate >= 0 /\ tenure > 0
CreateLoanSchema(loan_amount, interest_rate, tenure) ==
    loan_amount > 0 /\ interest_rate >= 0 /\ tenure > 0

\* Python None in a response body (ids are positive, rates are not negative)
None == -1


\* a lookup that hands back an unsaved customer for an unknown id
Customer_objects_get_unsaved(cs, pk) ==
    IF pk \in DOMAIN cs THEN {cs[pk]}
    ELSE {[customer_id |-> pk, monthly_salary |-> 1, approved_limit |-> 0]}

\* Customer.objects.get(pk=...): the customer, or nothing (DoesNotExist)
Customer_objects_get(cs, pk) == IF pk \in DOMAIN cs THEN {cs[pk]} ELSE {}

\* the id an AutoField gives the next row (rows are never deleted)
NextId(rows) == Cardinality(DOMAIN rows) + 1

(***************************************************************************)
(* register_customer: the response and the customers table after it.       *)
(* is_valid is the outcome of CustomerSerializer.is_valid().               *)
(***************************************************************************)

\* ApprovedLimit with int() for round()
ApprovedLimit_truncated(monthly_income) ==
    ((36 * monthly_income) \div (100000 * Cents)) * 100000 * Cents

\* round(36 * monthly_income / 100000) * 100000, income and limit in hundredths
ApprovedLimit(monthly_income) ==
    RoundHalfEven(36 * monthly_income, 100000 * Cents) * 100000 * Cents

register_customer_result(cs, age, monthly_income, is_valid) ==
    IF ~RegisterCustomerSchema(age, monthly_income)
    THEN [response |-> [status |-> 400], customers |-> cs]
    ELSE IF is_valid
    THEN LET customer == [customer_id |-> NextId(cs),
                          monthly_salary |-> monthly_income,
                          approved_limit |-> ApprovedLimit(monthly_income)]
         IN  [response |-> [status |-> 201,
                            customer_id |-> customer.customer_id,
                            monthly_income |-> customer.monthly_salary,
                            approved_limit |-> customer.approved_limit],
              customers |-> cs @@ (customer.customer_id :> customer)]
    ELSE [response |-> [status |-> 400], customers |-> cs]

register_customer(age, monthly_income) ==
    \E is_valid \in BOOLEAN :
      LET result == register_customer_result(customers, age, monthly_income, is_valid)
      IN  /\ result.customers # customers => Cardinality(DOMAIN customers) < MaxCustomers
          /\ customers' = result.customers
          /\ UNCHANGED <<loans, today, probe, inflight>>

(***************************************************************************)
(* check_eligibility: the response; the store is only read                 *)
(***************************************************************************)
check_eligibility_response(cs, ls, day, customer_id, loan_amount, interest_rate, tenure) ==
    IF ~CheckEligibilitySchema(loan_amount, interest_rate, tenure)
    THEN [status |-> 400]
    ELSE LET found == Customer_objects_get(cs, customer_id)
         IN  IF found = {}
             THEN [status |-> 404]
             ELSE LET customer == CHOOSE c \in found : TRUE
                      eligibility == get_eligibility_status(customer, ls, day,
                                         loan_amount, interest_rate, tenure)
                  IN  [status |-> 200,
                       customer_id |-> customer_id,
                       approval |-> eligibility.approval,
                       interest_rate |-> interest_rate,
                       corrected_interest_rate |->
                           IF eligibility.approval
                           THEN eligibility.corrected_interest_rate
                           ELSE None,
                       tenure |-> tenure,
                       monthly_installment |-> eligibility.monthly_installment]

check_eligibility(customer_id, loan_amount, interest_rate, tenure) ==
    /\ check_eligibility_response(customers, loans, today, customer_id,
                                  loan_amount, interest_rate, tenure).status
           \in {200, 400, 404}
    /\ UNCHANGED vars

(***************************************************************************)
(* create_loan: the response and the loans table after it.                 *)
(* is_valid is the outcome of LoanSerializer.is_valid().                   *)
(***************************************************************************)

\* IsRejected with the approval test dropped
IsRejected_never(eligibility) == FALSE

\* if not eligibility["approval"]
IsRejected(eligibility) == ~eligibility.approval

\* loan_data
LoanData(customer, eligibility, day, loan_amount, tenure) ==
    [customer |-> customer.customer_id,
     loan_amount |-> loan_amount,
     interest_rate |-> eligibility.corrected_interest_rate,
     tenure |-> tenure,
     monthly_repayment |-> eligibility.monthly_installment,
     emis_paid_on_time |-> 0,
     start_date |-> day,
     end_date |-> AddMonths(day, tenure)]

create_loan_result(cs, ls, day, customer_id, loan_amount, interest_rate, tenure, is_valid) ==
    IF ~CreateLoanSchema(loan_amount, interest_rate, tenure)
    THEN [response |-> [status |-> 400], loans |-> ls]
    ELSE LET found == Customer_objects_get(cs, customer_id)
         IN  IF found = {}
             THEN [response |-> [status |-> 404], loans |-> ls]
             ELSE LET customer == CHOOSE c \in found : TRUE
                      eligibility == get_eligibility_status(customer, ls, day,
                                         loan_amount, interest_rate, tenure)
                  IN  IF IsRejected(eligibility)
                      THEN [response |-> [status |-> 200,
                                          loan_id |-> None,
                                          customer_id |-> customer_id,
                                          loan_approved |-> FALSE,
                                          monthly_installment |-> 0],
                            loans |-> ls]
                      ELSE IF is_valid
                      THEN LET loan_id == NextId(ls)
                           IN  [response |-> [status |-> 201,
                                              loan_id |-> loan_id,
                                              customer_id |-> customer_id,
                                              loan_approved |-> TRUE,
                                              monthly_installment |->
                                                  eligibility.monthly_installment],
                                loans |-> ls @@ (loan_id :>
                                             LoanData(customer, eligibility, day,
                                                      loan_amount, tenure))]
                      ELSE [response |-> [status |-> 400], loans |-> ls]

create_loan(customer_id, loan_amount, interest_rate, tenure) ==
    \E is_valid \in BOOLEAN :
      LET result == create_loan_result(customers, loans, today, customer_id,
                                       loan_amount, interest_rate, tenure, is_valid)
      IN  /\ result.loans # loans => Cardinality(DOMAIN loans) < MaxLoans
          /\ loans' = result.loans
          /\ UNCHANGED <<customers, today, probe, inflight>>

(***************************************************************************)
(* The passing of time: date.today() on a later request                    *)
(***************************************************************************)
AdvanceDate ==
    /\ \E d \in Calendar : d # today /\ DateLE(today, d) /\ today' = d
    /\ UNCHANGED <<customers, loans, probe, inflight>>

(***************************************************************************)
(* The store before the first request: one customer and the loan history   *)
(* already on file for them (ingested records)                             *)
(***************************************************************************)
SeedCustomer == [customer_id |-> 1, monthly_salary |-> 2000, approved_limit |-> 5000]

SeedLoan(amount, repayment, paid, start, end) ==
    [customer |-> 1, loan_amount |-> amount, interest_rate |-> 10, tenure |-> 12,
     monthly_repayment |-> repayment, emis_paid_on_time |-> paid,
     start_date |-> start, end_date |-> end]

SeedHistories ==
    { \* an active loan whose installment is exactly half the salary
      <<SeedLoan(1000, 1000, 0, <<2023, 6, 30>>, <<2024, 6, 30>>),
        SeedLoan(500, 45, 6, <<2022, 1, 1>>, <<2023, 1, 1>>)>>,
      \* an active loan whose principal is over the approved limit
      <<SeedLoan(6000, 500, 12, <<2023, 2, 28>>, <<2024, 2, 29>>),
        SeedLoan(500, 45, 6, <<2022, 1, 1>>, <<2023, 1, 1>>)>>,
      \* two loans paid in full and ended
      <<SeedLoan(1000, 90, 12, <<2022, 1, 1>>, <<2023, 1, 1>>),
        SeedLoan(1000, 90, 12, <<2022, 6, 1>>, <<2023, 6, 1>>)>> }

Init ==
    /\ customers = (1 :> SeedCustomer)
    /\ loans \in SeedHistories
    /\ today = FirstDay
    /\ probe = <<>>
    /\ inflight = <<>>

Next ==
    \/ \E age \in Ages, monthly_income \in Incomes : register_customer(age, monthly_income)
    \/ \E customer_id \in CustomerIds, r \in Requests :
            check_eligibility(customer_id, r[1], r[2], r[3])
    \/ \E customer_id \in CustomerIds, r \in Requests :
            create_loan(customer_id, r[1], r[2], r[3])
    \/ AdvanceDate

Spec == Init /\ [][Next]_vars

(***************************************************************************)
(* The tiered policy on every score the scoring engine can return          *)
(***************************************************************************)
MaxScore == 110
TierRates == {0, 8, 12, 14, 16, 20}

InitTiers ==
    /\ customers = (1 :> SeedCustomer)
    /\ loans = <<>>
    /\ today = FirstDay
    /\ probe \in [credit_score : 0..MaxScore, interest_rate : TierRates,
                  applied : {FALSE}, approval : {FALSE},
                  corrected_interest_rate : {0}]
    /\ inflight = <<>>

ApplyTierPolicy ==
    /\ ~probe.applied
    /\ LET tier == TierPolicy(probe.credit_score, probe.interest_rate)
       IN  probe' = [probe EXCEPT !.applied = TRUE,
                                  !.approval = tier.approval,
                                  !.corrected_interest_rate = tier.corrected_interest_rate]
    /\ UNCHANGED <<customers, loans, today, inflight>>

SpecTiers == InitTiers /\ [][ApplyTierPolicy]_vars

(***************************************************************************)
(* Registrations into an empty store                                       *)
(***************************************************************************)
RegisterIncomes ==
    {0, 100050, 1000 * Cents, 1388 * Cents, 1389 * Cents, 416667, 4167 * Cents,
     694444, 694445, 12500 * Cents, 37500 * Cents, 50000 * Cents, 75000 * Cents}

InitRegister ==
    /\ customers = <<>>
    /\ loans = <<>>
    /\ today = FirstDay
    /\ probe = <<>>
    /\ inflight = <<>>

NextRegister ==
    \E age \in Ages, monthly_income \in RegisterIncomes :
        register_customer(age, monthly_income)

SpecRegister == InitRegister /\ [][NextRegister]_vars

(***************************************************************************)
(* The scoring engine on loan histories that satisfy the data model        *)
(***************************************************************************)
MaxHistory == 4
ScoreDay == <<2024, 12, 31>>

HistoryLoan(amount, tenure, paid, start, end) ==
    [customer |-> 1, loan_amount |-> amount, interest_rate |-> 10, tenure |-> tenure,
     monthly_repayment |-> 100, emis_paid_on_time |-> paid,
     start_date |-> start, end_date |-> end]

\* loans taken and ended in the year of ScoreDay, and loans taken the year
\* before and still running, each with none or all of the due EMIs on time
HistoryLoans ==
    { HistoryLoan(amount, 6, paid, <<2024, 1, 15>>, <<2024, 7, 15>>) :
          amount \in {1250, 2000}, paid \in {0, 6} }
    \cup
    { HistoryLoan(amount, 24, paid, <<2023, 6, 30>>, <<2025, 6, 30>>) :
          amount \in {1250, 2000}, paid \in {0, 18} }

Histories == UNION { [1..n -> HistoryLoans] : n \in 0..MaxHistory }

InitScore ==
    /\ customers = (1 :> SeedCustomer)
    /\ loans \in Histories
    /\ today = ScoreDay
    /\ probe = [applied |-> FALSE, credit_score |-> 0]
    /\ inflight = <<>>

ApplyScore ==
    /\ ~probe.applied
    /\ probe' = [applied |-> TRUE,
                 credit_score |-> calculate_credit_score(customers[1], loans, today)]
    /\ UNCHANGED <<customers, loans, today, inflight>>

SpecScore == InitScore /\ [][ApplyScore]_vars

(***************************************************************************)
(* create_loan served by several workers at once. A worker evaluates the   *)
(* request on the store as it is (views.py 210-227) and saves the loan in  *)
(* a later step (views.py 229-269); nothing is locked in between, so the   *)
(* steps of the workers interleave.                                        *)
(***************************************************************************)
NumWorkers == 2
Workers == 1..NumWorkers

\* a customer whose salary one installment of a race request uses up, and a
\* customer whose approved limit one principal of a race request exceeds
RaceCustomers ==
    (1 :> [customer_id |-> 1, monthly_salary |-> 1000, approved_limit |-> 5000])
    @@ (2 :> [customer_id |-> 2, monthly_salary |-> 1000 * Cents, approved_limit |-> 0])

RaceRequests == {<<500, 0, 1>>, <<500, 20, 1>>}

Idle ==
    [pc |-> "idle", customer_id |-> None, request |-> <<0, 0, 0>>,
     eligibility |-> [approval |-> FALSE, corrected_interest_rate |-> 0,
                      monthly_installment |-> 0],
     seen |-> {}, status |-> 0, loan_id |-> None]

InitConcurrent ==
    /\ customers = RaceCustomers
    /\ loans = <<>>
    /\ today = FirstDay
    /\ probe = <<>>
    /\ inflight = [w \in Workers |-> Idle]

\* validation, customer lookup and get_eligibility_status on the current store
Evaluate(w, customer_id, loan_amount, interest_rate, tenure) ==
    /\ inflight[w].pc = "idle"
    /\ LET found == Customer_objects_get(customers, customer_id)
       IN  IF ~CreateLoanSchema(loan_amount, interest_rate, tenure)
           THEN inflight' = [inflight EXCEPT ![w].pc = "done", ![w].status = 400]
           ELSE IF found = {}
           THEN inflight' = [inflight EXCEPT ![w].pc = "done", ![w].status = 404]
           ELSE LET customer == CHOOSE c \in found : TRUE
                IN  inflight' = [inflight EXCEPT ![w] =
                        [pc |-> "evaluated", customer_id |-> customer_id,
                         request |-> <<loan_amount, interest_rate, tenure>>,
                         eligibility |-> get_eligibility_status(customer, loans, today,
                                             loan_amount, interest_rate, tenure),
                         seen |-> DOMAIN loans, status |-> 0, loan_id |-> None]]
    /\ UNCHANGED <<customers, loans, today, probe>>

\* the rejection response, or the save of the loan decided by Evaluate
Save(w) ==
    /\ inflight[w].pc = "evaluated"
    /\ LET req == inflight[w]
           customer == customers[req.customer_id]
       IN  IF IsRejected(req.eligibility)
           THEN /\ inflight' = [inflight EXCEPT ![w].pc = "done", ![w].status = 200]
                /\ UNCHANGED loans
           ELSE \E is_valid \in BOOLEAN :
                  IF is_valid
                  THEN /\ Cardinality(DOMAIN loans) < MaxLoans
                       /\ loans' = loans @@ (NextId(loans) :>
                                        LoanData(customer, req.eligibility, today,
                                                 req.request[1], req.request[3]))
                       /\ inflight' = [inflight EXCEPT ![w].pc = "done",
                                                       ![w].status = 201,
                                                       ![w].loan_id = NextId(loans)]
                  ELSE /\ inflight' = [inflight EXCEPT ![w].pc = "done", ![w].status = 400]
                       /\ UNCHANGED loans
    /\ UNCHANGED <<customers, today, probe>>

NextConcurrent ==
    \/ \E w \in Workers, customer_id \in DOMAIN RaceCustomers, r \in RaceRequests :
            Evaluate(w, customer_id, r[1], r[2], r[3])
    \/ \E w \in Workers : Save(w)

SpecConcurrent == InitConcurrent /\ [][NextConcurrent]_vars

(***************************************************************************)
(* Properties                                                              *)
(***************************************************************************)
ValidRequests == {r \in Requests : CreateLoanSchema(r[1], r[2], r[3])}

Eligibility(cid, r) ==
    get_eligibility_status(customers[cid], loans, today, r[1], r[2], r[3])

CreateResult(cid, r, is_valid) ==
    create_loan_result(customers, loans, today, cid, r[1], r[2], r[3], is_valid)

ActiveEmis(cid) == SumRepayment(loans, ActiveLoans(loans, cid, today))
ActivePrincipal(cid) == SumAmount(loans, ActiveLoans(loans, cid, today))
Score(cid) == calculate_credit_score(customers[cid], loans, today)

\* C1: a create_loan request whose eligibility evaluation is not approved
\* leaves the loans table as it was and answers 200 with loan_id None,
\* loan_approved false and monthly_installment 0.
C1_RejectedCreatesNoLoan ==
    \A cid \in DOMAIN customers, r \in ValidRequests, is_valid \in BOOLEAN :
        ~Eligibility(cid, r).approval =>
            /\ CreateResult(cid, r, is_valid).loans = loans
            /\ CreateResult(cid, r, is_valid).response =
                   [status |-> 200, loan_id |-> None, customer_id |-> cid,
                    loan_approved |-> FALSE, monthly_installment |-> 0]

\* a customer registered by request has taken a loan and is now refused one
C1_Witness ==
    \E cid \in DOMAIN customers, r \in ValidRequests :
        /\ cid # 1
        /\ LoansOf(loans, cid) # {}
        /\ ~Eligibility(cid, r).approval

\* C2: active installments strictly above half the salary reject the request
\* with the requested rate unchanged and installment 0, whatever the score;
\* installments of exactly half the salary leave the decision to the score.
C2_DebtBurdenGuard ==
    \A cid \in DOMAIN customers, r \in ValidRequests :
        /\ 2 * ActiveEmis(cid) > customers[cid].monthly_salary =>
               Eligibility(cid, r) = [approval |-> FALSE,
                                      corrected_interest_rate |-> r[2],
                                      monthly_installment |-> 0]
        /\ 2 * ActiveEmis(cid) = customers[cid].monthly_salary =>
               /\ Eligibility(cid, r).approval = (Score(cid) > 10)
               /\ Eligibility(cid, r).corrected_interest_rate =
                      TierPolicy(Score(cid), r[2]).corrected_interest_rate

\* the guard rejects a customer whose score alone would approve unchanged
C2_Witness ==
    \E cid \in DOMAIN customers :
        /\ 2 * ActiveEmis(cid) > customers[cid].monthly_salary
        /\ Score(cid) > 50
        /\ Cardinality(LoansOf(loans, cid)) > 2

\* C3: active principal strictly above the approved limit gives score 0 and a
\* rejection with installment 0 whatever the rest of the history is, and no
\* create_loan for that customer adds a loan while that is so.
C3_HardRejection ==
    \A cid \in DOMAIN customers :
        ActivePrincipal(cid) > customers[cid].approved_limit =>
            /\ Score(cid) = 0
            /\ \A r \in ValidRequests, is_valid \in BOOLEAN :
                  /\ Eligibility(cid, r).approval = FALSE
                  /\ Eligibility(cid, r).monthly_installment = 0
                  /\ CreateResult(cid, r, is_valid).loans = loans

\* a customer who took a loan by request is over the limit with it, passes
\* the debt-burden guard and has positive loan-count and activity weights
C3_Witness ==
    \E cid \in DOMAIN customers :
        /\ cid # 1
        /\ ActivePrincipal(cid) > customers[cid].approved_limit
        /\ 2 * ActiveEmis(cid) <= customers[cid].monthly_salary
        /\ \E l \in LoansOf(loans, cid) : loans[l].start_date[1] = today[1]

\* C5: a customer with no loans (salary > 0, limit >= 0) scores exactly 25
\* and every valid request is approved with max(requested rate, 16).
C5_NewCustomer ==
    \A cid \in DOMAIN customers, r \in ValidRequests :
        ( /\ LoansOf(loans, cid) = {}
          /\ customers[cid].monthly_salary > 0
          /\ customers[cid].approved_limit >= 0 ) =>
            /\ Score(cid) = 25
            /\ Eligibility(cid, r).approval
            /\ Eligibility(cid, r).corrected_interest_rate = Max(r[2], 16)

\* a registered customer with a positive limit and no loans, while another
\* customer has taken a loan by request
C5_Witness ==
    \E cid \in DOMAIN customers :
        /\ LoansOf(loans, cid) = {}
        /\ customers[cid].approved_limit > 0
        /\ Cardinality(DOMAIN loans) > 2

\* C4: the tiers are half-open: score > 50 approves at the requested rate,
\* 30 < score <= 50 at max(rate, 12), 10 < score <= 30 at max(rate, 16),
\* score <= 10 rejects; an approval never lowers the requested rate.
C4_TierBoundaries ==
    probe.applied =>
        /\ probe.credit_score > 50 =>
               probe.approval /\ probe.corrected_interest_rate = probe.interest_rate
        /\ (30 < probe.credit_score /\ probe.credit_score <= 50) =>
               /\ probe.approval
               /\ probe.corrected_interest_rate = Max(probe.interest_rate, 12)
        /\ (10 < probe.credit_score /\ probe.credit_score <= 30) =>
               /\ probe.approval
               /\ probe.corrected_interest_rate = Max(probe.interest_rate, 16)
        /\ probe.credit_score <= 10 => ~probe.approval
        /\ probe.approval => probe.corrected_interest_rate >= probe.interest_rate

\* score exactly 50 with a requested rate under 12 has been decided
C4_Witness ==
    /\ probe.applied
    /\ probe.credit_score = 50
    /\ probe.interest_rate = 8
    /\ probe.corrected_interest_rate = 12

MonthIndex(d) == d[1] * 12 + d[2]

\* what an approved, saved create_loan returns, for every customer and request
C6_ApprovedResult ==
    \A cid \in DOMAIN customers, r \in ValidRequests :
        Eligibility(cid, r).approval =>
            LET result == CreateResult(cid, r, TRUE)
                new == Cardinality(DOMAIN loans) + 1
            IN  /\ DOMAIN result.loans = DOMAIN loans \cup {new}
                /\ new \notin DOMAIN loans
                /\ \A l \in DOMAIN loans : result.loans[l] = loans[l]
                /\ result.loans[new].customer = cid
                /\ result.loans[new].loan_amount = r[1]
                /\ result.loans[new].tenure = r[3]
                /\ result.loans[new].interest_rate =
                       Eligibility(cid, r).corrected_interest_rate
                /\ result.loans[new].monthly_repayment =
                       Eligibility(cid, r).monthly_installment
                /\ result.loans[new].emis_paid_on_time = 0
                /\ result.loans[new].start_date = today
                /\ MonthIndex(result.loans[new].end_date) = MonthIndex(today) + r[3]
                /\ result.loans[new].end_date[3] =
                       Min(today[3], DaysInMonth(result.loans[new].end_date[1],
                                                 result.loans[new].end_date[2]))
                /\ result.response = [status |-> 201, loan_id |-> new,
                                      customer_id |-> cid, loan_approved |-> TRUE,
                                      monthly_installment |->
                                          Eligibility(cid, r).monthly_installment]

\* every change of the loans table is such an addition, customers untouched
C6_ApprovedStep ==
    loans' # loans =>
        /\ customers' = customers
        /\ \E cid \in DOMAIN customers, r \in ValidRequests :
              /\ Eligibility(cid, r).approval
              /\ loans' = CreateResult(cid, r, TRUE).loans

\* C6: an approved create_loan whose loan is saved adds exactly one loan, under
\* the next id, for the requesting customer, with the requested amount and
\* tenure, the corrected rate, the evaluated installment, no installment paid,
\* starting today and ending tenure calendar months later; the response is
\* 201 with that id and installment; nothing else in the store changes.
C6_ApprovedCreatesLoan == []C6_ApprovedResult /\ [][C6_ApprovedStep]_vars

\* a loan saved by request on 31 January for one month: it ends on the last
\* day of February and carries a corrected rate no request asked for
C6_Witness ==
    \E l \in DOMAIN loans :
        /\ l > 2
        /\ loans[l].interest_rate \in {12, 16}
        /\ loans[l].start_date = <<2024, 1, 31>>
        /\ loans[l].end_date = <<2024, 2, 29>>
        /\ loans[l].monthly_repayment > 0

\* referential integrity of the store, and the answers for unknown ids
C7_Referential ==
    /\ \A l \in DOMAIN loans : loans[l].customer \in DOMAIN customers
    /\ \A cid \in CustomerIds \ DOMAIN customers, r \in ValidRequests :
          /\ check_eligibility_response(customers, loans, today, cid,
                                        r[1], r[2], r[3]) = [status |-> 404]
          /\ \A is_valid \in BOOLEAN :
                CreateResult(cid, r, is_valid) =
                    [response |-> [status |-> 404], loans |-> loans]

\* a step keeps every stored customer and loan as it is
C7_NoDeletion ==
    /\ \A c \in DOMAIN customers : c \in DOMAIN customers' /\ customers'[c] = customers[c]
    /\ \A l \in DOMAIN loans : l \in DOMAIN loans' /\ loans'[l] = loans[l]

\* C7: check_eligibility and create_loan answer 404 for an unknown customer
\* id and leave the store as it was; every stored loan references a stored
\* customer, and no customer or loan is ever deleted.
C7_UnknownCustomer == []C7_Referential /\ [][C7_NoDeletion]_vars

\* a registered customer holds a loan saved by request while another id is
\* still unknown to the store
C7_Witness ==
    /\ \E l \in DOMAIN loans : l > 2 /\ loans[l].customer # 1
    /\ CustomerIds \ DOMAIN customers # {}

\* C8: every approved valid request gets an installment that is strictly
\* positive and finite, and so has every loan saved by create_loan.
C8_InstallmentPositive ==
    /\ \A cid \in DOMAIN customers, r \in ValidRequests :
          Eligibility(cid, r).approval =>
              /\ Eligibility(cid, r).monthly_installment > 0
              /\ Eligibility(cid, r).monthly_installment # InfCents
    /\ \A l \in DOMAIN loans : l > 2 => loans[l].monthly_repayment > 0

\* the stored limits, and what a successful registration returns
C9_LimitNearest ==
    /\ \A c \in DOMAIN customers :
          LET limit == customers[c].approved_limit
              target == 36 * customers[c].monthly_salary
              unit == 100000 * Cents
          IN  /\ limit % unit = 0
              /\ 2 * (limit - target) <= unit
              /\ 2 * (target - limit) <= unit
              /\ (2 * (limit - target) = unit \/ 2 * (target - limit) = unit)
                     => (limit \div unit) % 2 = 0
    /\ \A monthly_income \in RegisterIncomes :
          monthly_income > 0 =>
              LET result == register_customer_result(customers, 30, monthly_income, TRUE)
                  new == Cardinality(DOMAIN customers) + 1
              IN  /\ DOMAIN result.customers = DOMAIN customers \cup {new}
                  /\ new \notin DOMAIN customers
                  /\ result.customers[new].monthly_salary = monthly_income
                  /\ result.response.status = 201
                  /\ result.response.customer_id = new
                  /\ result.response.approved_limit = result.customers[new].approved_limit

\* every change of the customers table adds one customer and keeps the rest
C9_RegisterStep ==
    customers' # customers =>
        \E monthly_income \in RegisterIncomes :
            /\ monthly_income > 0
            /\ customers' = register_customer_result(customers, 30, monthly_income,
                                                     TRUE).customers
            /\ Cardinality(DOMAIN customers') = Cardinality(DOMAIN customers) + 1
            /\ \A c \in DOMAIN customers : customers'[c] = customers[c]

\* C9: a registered customer's approved limit is the multiple of 100,000
\* nearest to 36 times the income (the even multiple when two are as near),
\* the response returns it, and a registration adds exactly one customer,
\* whose salary is the income given.
C9_ApprovedLimit == []C9_LimitNearest /\ [][C9_RegisterStep]_vars

\* income 75000 got limit 2,700,000; incomes 12500 (36 * income is midway
\* between two multiples) and 1389 (just above midway) are registered too
C9_Witness ==
    /\ \E c \in DOMAIN customers :
          /\ customers[c].monthly_salary = 75000 * Cents
          /\ customers[c].approved_limit = 2700000 * Cents
    /\ \E c \in DOMAIN customers :
          /\ customers[c].monthly_salary \in {12500 * Cents, 1389 * Cents}

\* C10: with active principal within the approved limit the score is at least
\* 25; a score of 0 comes only from the hard rejection; and once the
\* debt-burden guard has passed, a request is rejected exactly when the
\* active principal exceeds the limit.
C10_ZeroOnlyByHardRejection ==
    \A cid \in DOMAIN customers :
        /\ ActivePrincipal(cid) <= customers[cid].approved_limit => Score(cid) >= 25
        /\ Score(cid) = 0 => ActivePrincipal(cid) > customers[cid].approved_limit
        /\ 2 * ActiveEmis(cid) <= customers[cid].monthly_salary =>
               \A r \in ValidRequests :
                   ~Eligibility(cid, r).approval
                       <=> ActivePrincipal(cid) > customers[cid].approved_limit

\* one customer is rejected by score alone while another, whose limit is 0
\* and who has no loans, is within the limit
C10_Witness ==
    /\ \E cid \in DOMAIN customers, r \in ValidRequests :
          /\ 2 * ActiveEmis(cid) <= customers[cid].monthly_salary
          /\ ActivePrincipal(cid) > customers[cid].approved_limit
          /\ ~Eligibility(cid, r).approval
    /\ \E cid \in DOMAIN customers :
          /\ customers[cid].approved_limit = 0
          /\ ActivePrincipal(cid) = 0
          /\ Score(cid) = 25

\* the data model of a loan row: a positive tenure and principal, and no more
\* on-time EMIs than the tenure
DataModel ==
    \A l \in DOMAIN loans :
        /\ loans[l].tenure > 0
        /\ loans[l].loan_amount > 0
        /\ loans[l].emis_paid_on_time >= 0
        /\ loans[l].emis_paid_on_time <= loans[l].tenure

\* the four weights stay within 30, 20, 20 and 15
WeightsBounded(customer) ==
    /\ paid_on_time_weight(customer, loans)[1] >= 0
    /\ paid_on_time_weight(customer, loans)[1] <= 30 * paid_on_time_weight(customer, loans)[2]
    /\ num_loans_weight(customer, loans) \in 0..20
    /\ loan_activity_weight(customer, loans, today) \in 0..20
    /\ loan_volume_weight(customer, loans)[1] >= 0
    /\ loan_volume_weight(customer, loans)[1] <= 15 * loan_volume_weight(customer, loans)[2]

\* C11: on every loan history that satisfies the data model the score
\* returned by calculate_credit_score lies between 0 and 100, and the
\* on-time, loan-count, activity and volume weights are at most 30, 20, 20
\* and 15.
C11_ScoreRange ==
    (probe.applied /\ DataModel) =>
        /\ probe.credit_score >= 0
        /\ probe.credit_score <= 100
        /\ WeightsBounded(customers[1])

\* what the scoring engine does keep: the weights within their bounds and
\* the score between 0 and the baseline plus the four maximal weights
C11_ScoreWithinBaselinePlusWeights ==
    (probe.applied /\ DataModel) =>
        /\ probe.credit_score \in 0..(base_score + 30 + 20 + 20 + 15)
        /\ WeightsBounded(customers[1])

\* the loan rows of one customer, under their loan ids
OwnLoans(cid) == [l \in {k \in DOMAIN loans : loans[k].customer = cid} |-> loans[l]]

Salaries == {0, 1, 75000 * Cents}

\* the score of a customer is the score of their approved_limit and their own
\* loan rows on the same day, whatever the salary and the other customers' loans
C12_ScoreInputs ==
    \A cid \in DOMAIN customers, salary \in Salaries :
        calculate_credit_score([customer_id |-> cid, monthly_salary |-> salary,
                                approved_limit |-> customers[cid].approved_limit],
                               OwnLoans(cid), today)
            = Score(cid)

\* a step that only evaluates (check_eligibility) leaves the store as it was
C12_ReadOnlyStep ==
    (\E cid \in CustomerIds, r \in Requests : check_eligibility(cid, r[1], r[2], r[3]))
        => (customers' = customers /\ loans' = loans)

\* over a step that keeps the customers and the loans, every score stays
\* the same, whatever the day of the evaluation
C12_SameStoreSameScore ==
    (customers' = customers /\ loans' = loans) =>
        \A cid \in DOMAIN customers :
            calculate_credit_score(customers[cid], loans, today')
                = calculate_credit_score(customers[cid], loans, today)

\* C12: the score is a function of the customer's approved_limit and their
\* loan records alone: the same limit and records give the same score
\* whatever else differs, the day of the evaluation included, and an
\* evaluation changes nothing in the store.
C12_ScoreIgnoresDay ==
    /\ []C12_ScoreInputs
    /\ [][C12_ReadOnlyStep]_vars
    /\ [][C12_SameStoreSameScore]_vars

\* C12 (amended): the score is a function of the customer's approved_limit,
\* their loan records and the day of the evaluation: on the same day the same
\* limit and records give the same score whatever the salary and the other
\* customers' loans, and an evaluation changes nothing in the store.
C12_ScoreFunctionOfLimitLoansDay ==
    /\ []C12_ScoreInputs
    /\ [][C12_ReadOnlyStep]_vars

\* two customers with loans of their own, on a later day than the first
C12_Witness ==
    \E cid \in DOMAIN customers :
        /\ cid # 1
        /\ OwnLoans(cid) # <<>>
        /\ OwnLoans(1) # <<>>
        /\ today # FirstDay

\* create_loan as one step: the second of two requests, served after the
\* first has been answered
SecondAfterFirst(cid, r1, r2) ==
    LET first == create_loan_result(customers, loans, today, cid,
                                    r1[1], r1[2], r1[3], TRUE)
    IN  create_loan_result(customers, first.loans, today, cid,
                           r2[1], r2[2], r2[3], TRUE)

\* the customer's loans that were in the store when worker w evaluated
SeenOwn(w) == {l \in inflight[w].seen : loans[l].customer = inflight[w].customer_id}

\* both workers' loans for the same customer are in the store
BothCreated(p, q) ==
    /\ p # q
    /\ inflight[p].status = 201
    /\ inflight[q].status = 201
    /\ inflight[p].customer_id = inflight[q].customer_id

\* C13: two create_loan requests for the same customer served one after the
\* other have the second one rejected, and a worker that evaluates after the
\* other's loan is saved rejects; two loans for the same customer are in the
\* store only when both workers evaluated before either saved, on the same
\* loans of that customer.
C13_OnlyTheRaceCreatesBoth ==
    /\ \A cid \in DOMAIN customers, r1 \in RaceRequests, r2 \in RaceRequests :
           /\ SecondAfterFirst(cid, r1, r2).response.status = 200
           /\ ~SecondAfterFirst(cid, r1, r2).response.loan_approved
    /\ \A p \in Workers, q \in Workers :
           (/\ p # q
            /\ inflight[p].pc # "idle"
            /\ inflight[p].customer_id = inflight[q].customer_id
            /\ inflight[q].loan_id \in inflight[p].seen)
               => (IsRejected(inflight[p].eligibility) /\ inflight[p].status # 201)
    /\ \A p \in Workers, q \in Workers :
           BothCreated(p, q) =>
               /\ inflight[q].loan_id \notin inflight[p].seen
               /\ SeenOwn(p) = SeenOwn(q)
               /\ loans[inflight[p].loan_id].customer = inflight[p].customer_id
               /\ loans[inflight[q].loan_id].customer = inflight[p].customer_id

\* both requests passed the guard and the hard rejection on the same store and
\* both loans were saved: the customer's installments are now over half the salary
C13_Witness ==
    \E p \in Workers, q \in Workers :
        /\ BothCreated(p, q)
        /\ SeenOwn(p) = SeenOwn(q)
        /\ 2 * ActiveEmis(inflight[p].customer_id) >
               customers[inflight[p].customer_id].monthly_salary

\* the same with the principal: both loans saved and the customer's active
\* principal is now over the approved limit by more than one loan
C13_WitnessPrincipal ==
    \E p \in Workers, q \in Workers :
        /\ BothCreated(p, q)
        /\ customers[inflight[p].customer_id].approved_limit = 0
        /\ Cardinality(ActiveLoans(loans, inflight[p].customer_id, today)) = 2
====
